---- MODULE Spec2Model ----
(***************************************************************************)
(* Model of src/main.py: an asyncio scraper.  main() starts one           *)
(* process_query task per input query; each holds a slot of query_sem     *)
(* while scrape_query gathers PAGES concurrent fetch_page calls; each     *)
(* fetch_page attempt holds a slot of sem while its request is in flight. *)
(* An action is one run of a task between two suspension points of the    *)
(* event loop.                                                            *)
(***************************************************************************)
EXTENDS FiniteSets, Integers, Sequences, TLC

\* ---- configuration (src/main.py:14-21) ----
\* The module's configuration section as it stands in the source.
DefaultConfig == [PAGES |-> 5, RETRIES |-> 3, SEM |-> 10, QUERY_SEM |-> 3]
\* The same section edited to smaller values, so that runs of several queries,
\* in which both semaphores are contended, stay small.
SmallConfig == [PAGES |-> 2, RETRIES |-> 2, SEM |-> 3, QUERY_SEM |-> 2]
Configurations == {DefaultConfig, SmallConfig}

\* ---- bounds of the model ----
\* most fetch_page tasks of one run: the batch of a run has at most
\* MaxFetches \div PAGES queries (one query of 5 pages under DefaultConfig, up
\* to three queries of 2 pages under SmallConfig)
MaxFetches == 6

\* Python's None, and an exception object returned by gather
None == [kind |-> "None"]
FetchException == [kind |-> "Exception"]

\* ---- query text ----
\* A query is a sequence of one-character strings.
Alnum == {"a", "b"}
IsAlnum(c) == c \in Alnum

\* urllib.parse.quote: letters, digits and "_.-~/" are kept, anything else is
\* percent-encoded.
QuoteChar(c) ==
  IF IsAlnum(c) \/ c \in {"_", ".", "-", "~", "/"} THEN <<c>>
  ELSE IF c = " " THEN <<"%", "2", "0">>
  ELSE IF c = "!" THEN <<"%", "2", "1">>
  ELSE <<"%", "?", "?">>

RECURSIVE quote(_)
quote(s) == IF s = <<>> THEN <<>> ELSE QuoteChar(Head(s)) \o quote(Tail(s))

\* scrape_query, lines 108-110: page 1 has no p parameter, page n has p = n-1.
Url(query, page) ==
  IF page = 1 THEN [q |-> quote(query)]
  ELSE [q |-> quote(query), p |-> page - 1]

\* (a variant that keeps alphanumerics and underscores only)
KeepChar_no_space(c) == IsAlnum(c) \/ c = "_"

\* process_query, line 148: keep alphanumerics, spaces and underscores, then
\* replace spaces by underscores.
KeepChar(c) == IsAlnum(c) \/ c \in {" ", "_"}
Keep(query) == SelectSeq(query, KeepChar)
ReplaceSpaces(s) == [k \in 1..Len(s) |-> IF s[k] = " " THEN "_" ELSE s[k]]
SafeQuery(query) == ReplaceSpaces(Keep(query))
\* line 149
Filename(query) == SafeQuery(query) \o <<".json">>

\* ---- page content and parse_page (lines 58-102) ----
\* A fetched page is a record [url, attempt, divs]; divs is the sequence of its
\* div elements in document order.  A div has a class attribute, a text, an
\* optional first <a href> (None when it has none) with its own text, and an
\* optional description child (None when it has none).
Lower(t) ==
  CASE t = "Ads provided by Google" -> "ads provided by google"
    [] t = "Result" -> "result"
    [] t = "A" -> "a"
    [] t = "Shop" -> "shop"
    [] t = "No title" -> "no title"
    [] OTHER -> t

\* 'provided by Google' in s, for the texts of the model: the needle has a
\* capital G, so only a text that spells it that way contains it.
ContainsMarker(s) == s \in {"Ads provided by Google"}

\* the css selector of line 71: class contains neither "ad" nor "cookie"
Selected(div) == div.class \notin {"ad", "cookie-banner", "header"}

\* the text nodes of the element: its own text, the text of its link and the
\* text of its description, those that are not empty
TextNodes(div) ==
  {t \in ({div.text}
           \cup (IF div.link # None THEN {div.link.text} ELSE {})
           \cup (IF div.desc # None THEN {div.desc.text} ELSE {})) : t # ""}

\* line 73: a text node of the element satisfies 'provided by Google' in t.lower()
IsSponsored(div) == \E t \in TextNodes(div) : ContainsMarker(Lower(t))

\* line 78: an <a href> whose target starts with "http"
HasValidLink(div) == div.link # None /\ div.link.href.scheme \in {"http", "https"}

\* lines 81-98
Record(div, keyword) ==
  [title |-> IF div.link.text # "" THEN div.link.text ELSE "No title",
   link |-> div.link.href,
   description |-> IF div.desc # None THEN div.desc.text ELSE "",
   favicon_path |-> [domain |-> div.link.href.netloc],
   keyword |-> keyword]

RECURSIVE Results(_, _)
Results(divs, keyword) ==
  IF divs = <<>> THEN <<>>
  ELSE LET d == Head(divs)
           rest == Results(Tail(divs), keyword)
       IN IF Selected(d) /\ ~IsSponsored(d) /\ HasValidLink(d)
          THEN <<Record(d, keyword)>> \o rest
          ELSE rest

parse_page(html, keyword, page) ==
  IF html = None THEN [page |-> page, results |-> <<>>]
  ELSE [page |-> page, results |-> Results(html.divs, keyword)]

\* What the search engine serves for url: one organic result (whose link names
\* the page asked for), one sponsored block and one block without a link.
Organic(url) ==
  [class |-> "result", text |-> "Result",
   link |-> [href |-> [scheme |-> "https", netloc |-> "a.org", path |-> url],
             text |-> "A"],
   desc |-> [text |-> "about a"]]
SponsoredDiv ==
  [class |-> "result", text |-> "Ads provided by Google",
   link |-> [href |-> [scheme |-> "https", netloc |-> "shop.com", path |-> "/"],
             text |-> "Shop"],
   desc |-> None]
NoLink == [class |-> "footer", text |-> "", link |-> None, desc |-> None]
ServedDivs(url) == <<Organic(url), SponsoredDiv, NoLink>>

\* response.text() of the request for url made by the attempt numbered attempt
Body(url, attempt) ==
  [kind |-> "html", url |-> url, attempt |-> attempt, divs |-> ServedDivs(url)]

\* ---- asyncio.Semaphore (lines 19 and 21; async with, lines 41 and 146) ----
\* A semaphore is its counter, the queue of its waiters in order of arrival
\* and the set of the waiters whose future has its result: woken, holding the
\* slot that was passed to them, and not yet run again.
Semaphore(n) == [value |-> n, waiters |-> <<>>, woken |-> {}]

\* Semaphore.locked: no slot is free, or somebody is queued
locked(s) == s.value = 0 \/ s.waiters # <<>>

\* Semaphore._wake_up_next: the first waiter that is not woken gets a slot
Unwoken(s) == {k \in 1..Len(s.waiters) : s.waiters[k] \notin s.woken}
wake_up_next(s) ==
  IF Unwoken(s) = {} THEN s
  ELSE LET k == CHOOSE m \in Unwoken(s) : \A j \in Unwoken(s) : m <= j
       IN [s EXCEPT !.value = @ - 1, !.woken = @ \cup {s.waiters[k]}]

\* Semaphore.release
release(s) == wake_up_next([s EXCEPT !.value = @ + 1])

\* Semaphore.acquire called by w, up to its return or its await: a slot is
\* taken when the semaphore is not locked, otherwise w queues
acquire(s, w) ==
  IF ~locked(s) THEN [s EXCEPT !.value = @ - 1]
  ELSE [s EXCEPT !.waiters = Append(@, w)]

\* Semaphore.acquire after its await, for the woken waiter w: w leaves the
\* queue, and passes a slot on when one is free
resume(s, w) ==
  LET t == [s EXCEPT !.waiters = SelectSeq(@, LAMBDA x : x # w), !.woken = @ \ {w}]
  IN IF t.value > 0 THEN wake_up_next(t) ELSE t

\* Semaphore.release by a cancelled task that leaves its async with block:
\* asyncio.run has cancelled every task, so the future of every waiter is done
\* (cancelled, or woken before) and the slot is passed to none of them
unwind_holder(s) == [s EXCEPT !.value = @ + 1]

\* Semaphore.acquire of the waiter w, whose task was cancelled: w leaves the
\* queue, and gives back the slot that a release had passed to it
unwind_waiter(s, w) ==
  [value |-> IF w \in s.woken THEN s.value + 1 ELSE s.value,
   waiters |-> SelectSeq(s.waiters, LAMBDA x : x # w),
   woken |-> s.woken \ {w}]

\* ---- state ----
VARIABLES
  config,     \* the configuration section, lines 14-21 (never changes in a run)
  queries,    \* main: the queries read from the input file, in order
  proxyOk,    \* whether ProxyConnector.from_url accepts the configured proxy url
  mainpc,     \* main: "running", "done" (gather returned), "crashed" (gather raised)
  qpc,        \* process_query task i: "new", "wait" (queued at query_sem),
              \* "scraping", "done", "failed", "cancelled"
  ppc,        \* fetch_page task (i, p): "idle" (not created, or gone with its
              \* scrape_query), "new", "wait", "get", "sleep", "done",
              \* "cancelled" (ended by cancellation, its locals gone)
  attempt,    \* fetch_page: the loop variable of line 37
  result,     \* fetch_page: the value returned or the exception raised, None before
  requests,   \* number of session.get calls issued by fetch_page task (i, p)
  log,        \* fetch_page task (i, p): how each of its requests ended, "200" or "failed"
  backoffs,   \* number of asyncio.sleep calls (line 54) made by fetch_page task (i, p)
  connectors, \* number of connectors made by fetch_page task (i, p) and not yet closed
  draws,      \* number of times fetch_page task (i, p) has evaluated self.ua.random
  reordered,  \* task i: a page finished while a page of lower index was still running
  sem,        \* the semaphore sem; its waiters are fetch_page tasks <<i, p>>
  query_sem,  \* the semaphore query_sem; its waiters are process_query tasks i
  handed,     \* process_query i: the documents it passed to save_to_json, in order
  files,      \* the file system written by save_to_json: filename -> [json, whole],
              \* the document whose text was written and whether all of it was
  san         \* two query texts and the file names derived from them (SpecSanitize)

vars == <<config, queries, proxyOk, mainpc, qpc, ppc, attempt, result, requests, log,
          backoffs, connectors, draws, reordered, sem, query_sem, handed, files, san>>

PAGES == config.PAGES
RETRIES == config.RETRIES
SEM_LIMIT == config.SEM
QUERY_SEM_LIMIT == config.QUERY_SEM

Tasks == 1..Len(queries)
Pages == 1..PAGES

\* the process_query tasks, and the fetch_page tasks, that have not ended
Pending == {i \in Tasks : qpc[i] \in {"new", "wait", "scraping"}}
PendingFetch(i, p) == ppc[i][p] \in {"new", "wait", "get", "sleep"}

\* asyncio.run has left the loop of main and cancelled every task (its
\* finally clause): from the first task that ends cancelled, the only steps
\* are those of the tasks ending cancelled
Cancelling ==
  /\ mainpc = "crashed"
  /\ \E i \in Tasks : qpc[i] = "cancelled" \/ \E p \in Pages : ppc[i][p] = "cancelled"

\* ---- input ----
\* The rows of the input file; a run reads a non-empty prefix of them.
InputRows == <<
  <<"a", " ", "b">>, <<"a", "_", "b">>, <<"a", "!", "b">>, <<"a", "b">>,
  <<"b">>, <<"b", "!">>, <<"a">>, <<"!">> >>
Batches(pages) ==
  {SubSeq(InputRows, 1, n) : n \in 1..(MaxFetches \div pages)}

Init ==
  /\ config \in Configurations
  /\ queries \in Batches(config.PAGES)
  /\ proxyOk \in BOOLEAN
  /\ mainpc = "running"
  /\ qpc = [i \in Tasks |-> "new"]
  /\ ppc = [i \in Tasks |-> [p \in Pages |-> "idle"]]
  /\ attempt = [i \in Tasks |-> [p \in Pages |-> 0]]
  /\ result = [i \in Tasks |-> [p \in Pages |-> None]]
  /\ requests = [i \in Tasks |-> [p \in Pages |-> 0]]
  /\ log = [i \in Tasks |-> [p \in Pages |-> <<>>]]
  /\ backoffs = [i \in Tasks |-> [p \in Pages |-> 0]]
  /\ connectors = [i \in Tasks |-> [p \in Pages |-> 0]]
  /\ draws = [i \in Tasks |-> [p \in Pages |-> 0]]
  /\ reordered = [i \in Tasks |-> FALSE]
  /\ sem = Semaphore(SEM_LIMIT)
  /\ query_sem = Semaphore(QUERY_SEM_LIMIT)
  /\ handed = [i \in Tasks |-> <<>>]
  /\ files = <<>>
  /\ san = [pc |-> "unused"]

\* ---- process_query / scrape_query ----
\* (a variant that starts scraping without waiting for a slot of query_sem)
QueryStart_unguarded(i) ==
  /\ qpc[i] = "new"
  /\ ~Cancelling
  /\ query_sem' = [query_sem EXCEPT !.value = @ - 1]
  /\ qpc' = [qpc EXCEPT ![i] = "scraping"]
  /\ ppc' = [ppc EXCEPT ![i] = [p \in Pages |-> "new"]]
  /\ UNCHANGED <<san, config, queries, proxyOk, mainpc, attempt, result, requests, log,
                 backoffs, connectors, draws, reordered, sem, handed, files>>

\* (a variant that creates the fetch_page tasks before the task has its slot)
QueryStart_outside_slot(i) ==
  /\ qpc[i] = "new"
  /\ ~Cancelling
  /\ \A p \in Pages : ppc[i][p] = "idle"
  /\ ppc' = [ppc EXCEPT ![i] = [p \in Pages |-> "new"]]
  /\ UNCHANGED <<san, config, queries, proxyOk, mainpc, qpc, attempt, result, requests,
                 log, backoffs, connectors, draws, reordered, sem, query_sem, handed,
                 files>>

\* lines 145-146 and 106-113: the first run of the task.  It takes a slot of
\* query_sem, scrape_query creates the PAGES fetch_page tasks and waits in
\* gather; or, the semaphore being locked, it queues.  The tasks that gather
\* (line 154) created run for the first time in the order of their creation:
\* the ready queue of the event loop is first-in first-out.
QueryStart(i) ==
  /\ qpc[i] = "new"
  /\ ~Cancelling
  /\ \A j \in 1..(i - 1) : qpc[j] # "new"
  /\ query_sem' = acquire(query_sem, i)
  /\ IF locked(query_sem)
     THEN /\ qpc' = [qpc EXCEPT ![i] = "wait"]
          /\ UNCHANGED ppc
     ELSE /\ qpc' = [qpc EXCEPT ![i] = "scraping"]
          /\ ppc' = [ppc EXCEPT ![i] = [p \in Pages |-> "new"]]
  /\ UNCHANGED <<san, config, queries, proxyOk, mainpc, attempt, result, requests, log,
                 backoffs, connectors, draws, reordered, sem, handed, files>>

\* lines 145-146 and 106-113: a queued task that was passed a slot runs again
QueryResume(i) ==
  /\ qpc[i] = "wait"
  /\ ~Cancelling
  /\ i \in query_sem.woken
  /\ query_sem' = resume(query_sem, i)
  /\ qpc' = [qpc EXCEPT ![i] = "scraping"]
  /\ ppc' = [ppc EXCEPT ![i] = [p \in Pages |-> "new"]]
  /\ UNCHANGED <<san, config, queries, proxyOk, mainpc, attempt, result, requests, log,
                 backoffs, connectors, draws, reordered, sem, handed, files>>

\* ---- fetch_page ----
\* lines 38-42 for the attempt numbered a: the connector is made from the proxy
\* url (outside the try, so its error leaves fetch_page), then the task takes a
\* slot of sem and issues the request or, the semaphore being locked, queues.
BeginAttempt(i, p, a) ==
  /\ attempt' = [attempt EXCEPT ![i][p] = a]
  /\ IF ~proxyOk
     THEN /\ ppc' = [ppc EXCEPT ![i][p] = "done"]
          /\ result' = [result EXCEPT ![i][p] = FetchException]
          /\ reordered' = [reordered EXCEPT ![i] =
                             @ \/ \E r \in 1..(p - 1) : ppc[i][r] # "done"]
          /\ UNCHANGED <<sem, requests, connectors>>
     ELSE /\ connectors' = [connectors EXCEPT ![i][p] = @ + 1]
          /\ sem' = acquire(sem, <<i, p>>)
          /\ IF locked(sem)
             THEN /\ ppc' = [ppc EXCEPT ![i][p] = "wait"]
                  /\ UNCHANGED <<requests, result, reordered>>
             ELSE /\ ppc' = [ppc EXCEPT ![i][p] = "get"]
                  /\ requests' = [requests EXCEPT ![i][p] = @ + 1]
                  /\ UNCHANGED <<result, reordered>>

\* lines 35-42: the first run of the task.  It comes after the first run of
\* every task created before it: the process_query tasks of main, and the
\* fetch_page tasks of the pages before p, in the order of line 107.
FetchStart(i, p) ==
  /\ ppc[i][p] = "new"
  /\ ~Cancelling
  /\ \A j \in Tasks : qpc[j] # "new"
  /\ \A r \in 1..(p - 1) : ppc[i][r] # "new"
  /\ draws' = [draws EXCEPT ![i][p] = @ + 1]
  /\ BeginAttempt(i, p, 0)
  /\ UNCHANGED <<san, config, queries, proxyOk, mainpc, qpc, log, backoffs, query_sem,
                 handed, files>>

\* (a variant in which a waiting task issues its request without a slot)
SemAcquire_unguarded(i, p) ==
  /\ ppc[i][p] = "wait"
  /\ ~Cancelling
  /\ sem' = resume(sem, <<i, p>>)
  /\ ppc' = [ppc EXCEPT ![i][p] = "get"]
  /\ requests' = [requests EXCEPT ![i][p] = @ + 1]
  /\ UNCHANGED <<san, config, queries, proxyOk, mainpc, qpc, attempt, result, log,
                 backoffs, connectors, draws, reordered, query_sem, handed, files>>

\* lines 41-42: a queued task that was passed a slot of sem runs again and
\* issues the request
SemAcquire(i, p) ==
  /\ ppc[i][p] = "wait"
  /\ ~Cancelling
  /\ <<i, p>> \in sem.woken
  /\ sem' = resume(sem, <<i, p>>)
  /\ ppc' = [ppc EXCEPT ![i][p] = "get"]
  /\ requests' = [requests EXCEPT ![i][p] = @ + 1]
  /\ UNCHANGED <<san, config, queries, proxyOk, mainpc, qpc, attempt, result, log,
                 backoffs, connectors, draws, reordered, query_sem, handed, files>>

\* lines 42-56: the request ends.  "200": status 200 and the body was read;
\* "status": a non-200 status; "error": an exception of session.get;
\* "body_error": status 200 and an exception of response.text.  In the last
\* three cases the attempt failed.
Outcomes == {"200", "status", "error", "body_error"}

\* (a variant whose loop runs one turn too many: range(RETRIES + 1))
AfterAttempt_one_more(q, p, a, outcome) ==
  IF outcome = "200" THEN Body(Url(q, p), a)
  ELSE IF a < RETRIES THEN [kind |-> "retry"]
  ELSE None

\* (a variant that gives up on the last turn before looking at the response)
AfterAttempt_last_lost(q, p, a, outcome) ==
  IF outcome = "200" /\ a < RETRIES - 1 THEN Body(Url(q, p), a)
  ELSE IF a < RETRIES - 1 THEN [kind |-> "retry"]
  ELSE None

\* (a variant that returns what was read of the body when response.text raises)
AfterAttempt_partial_body(q, p, a, outcome) ==
  IF outcome \in {"200", "body_error"} THEN Body(Url(q, p), a)
  ELSE IF a < RETRIES - 1 THEN [kind |-> "retry"]
  ELSE None

\* (a variant that sleeps after every attempt and looks at its outcome only on
\* the last turn of the loop)
AfterAttempt_sleep_first(q, p, a, outcome) ==
  IF a < RETRIES - 1 THEN [kind |-> "retry"]
  ELSE IF outcome = "200" THEN Body(Url(q, p), a)
  ELSE None

\* the value fetch_page returns after the attempt numbered a ended with outcome,
\* or "retry" when the loop goes on
AfterAttempt(q, p, a, outcome) ==
  IF outcome = "200" THEN Body(Url(q, p), a)
  ELSE IF a < RETRIES - 1 THEN [kind |-> "retry"]
  ELSE None

\* (a variant that keeps the slot when the request raised)
SemRelease_not_on_error(s, outcome) == IF outcome = "error" THEN s ELSE release(s)

\* (a variant that closes the connector in the try block, not in finally)
CloseConnector_not_on_error(n, outcome) ==
  IF outcome \in {"error", "body_error"} THEN n ELSE n - 1

\* line 41, leaving the async with block: the slot of sem is released
SemRelease(s, outcome) == release(s)

\* line 52, the finally clause (and the session's exit): the connector is closed
CloseConnector(n, outcome) == n - 1

Response(i, p, outcome) ==
  /\ ppc[i][p] = "get"
  /\ ~Cancelling
  /\ sem' = SemRelease(sem, outcome)
  /\ connectors' = [connectors EXCEPT ![i][p] = CloseConnector(@, outcome)]
  /\ log' = [log EXCEPT ![i][p] = Append(@, IF outcome = "200" THEN "200" ELSE "failed")]
  /\ LET r == AfterAttempt(queries[i], p, attempt[i][p], outcome)
     IN IF r = [kind |-> "retry"]
        THEN /\ ppc' = [ppc EXCEPT ![i][p] = "sleep"]
             /\ backoffs' = [backoffs EXCEPT ![i][p] = @ + 1]
             /\ UNCHANGED <<result, reordered>>
        ELSE /\ ppc' = [ppc EXCEPT ![i][p] = "done"]
             /\ UNCHANGED backoffs
             /\ result' = [result EXCEPT ![i][p] = r]
             /\ reordered' = [reordered EXCEPT ![i] =
                                @ \/ \E s \in 1..(p - 1) : ppc[i][s] # "done"]
  /\ UNCHANGED <<san, config, queries, proxyOk, mainpc, qpc, attempt, requests, draws,
                 query_sem, handed, files>>

\* line 54 and the next turn of the loop: the sleep ends
Wake(i, p) ==
  /\ ppc[i][p] = "sleep"
  /\ ~Cancelling
  /\ BeginAttempt(i, p, attempt[i][p] + 1)
  /\ UNCHANGED <<san, config, queries, proxyOk, mainpc, qpc, log, backoffs, draws,
                 query_sem, handed, files>>

\* ---- scrape_query, lines 113-122 ----
\* gather returns the outcomes in the order of the tasks it was given
html_pages(i) == [p \in Pages |-> result[i][p]]

\* (a variant that numbers the pages the way enumerate does without start=1)
structured_data_from_zero(query, pages) ==
  [n \in 1..Len(pages) |->
     parse_page(IF pages[n] = FetchException THEN None ELSE pages[n], query, n - 1)]

\* lines 114-120: enumerate from 1, an exception becomes None, parse
structured_data(query, pages) ==
  [n \in 1..Len(pages) |->
     parse_page(IF pages[n] = FetchException THEN None ELSE pages[n], query, n)]

\* line 122: a dict with the query as its only key
Document(query, pages) == (query :> structured_data(query, pages))

\* ---- save_to_json, lines 127-130 ----
\* "saved": the file holds the text of the document; "open_error": open
\* (line 129) raised, nothing is touched; "write_error": open succeeded, which
\* emptied the file, and json.dump or the close raised: the file is left empty
\* or holds the text cut short.  In the last two cases the exception leaves
\* save_to_json.
SinkOutcomes == {"saved", "open_error", "write_error"}
save_to_json(fs, doc, filename, sink) ==
  IF sink = "open_error" THEN fs
  ELSE (filename :> [json |-> doc, whole |-> (sink = "saved")]) @@ fs

\* The fetch_page tasks of the process_query tasks in gone, and the locals of
\* their coroutines, no longer exist once scrape_query has returned or the
\* tasks were cancelled.
Discard(gone) ==
  /\ ppc' = [i \in Tasks |-> IF i \in gone THEN [p \in Pages |-> "idle"] ELSE ppc[i]]
  /\ attempt' = [i \in Tasks |-> IF i \in gone THEN [p \in Pages |-> 0] ELSE attempt[i]]
  /\ result' = [i \in Tasks |-> IF i \in gone THEN [p \in Pages |-> None] ELSE result[i]]
  /\ requests' = [i \in Tasks |-> IF i \in gone THEN [p \in Pages |-> 0] ELSE requests[i]]
  /\ log' = [i \in Tasks |-> IF i \in gone THEN [p \in Pages |-> <<>>] ELSE log[i]]
  /\ backoffs' = [i \in Tasks |-> IF i \in gone THEN [p \in Pages |-> 0] ELSE backoffs[i]]
  /\ connectors' = [i \in Tasks |-> IF i \in gone THEN [p \in Pages |-> 0]
                                   ELSE connectors[i]]
  /\ draws' = [i \in Tasks |-> IF i \in gone THEN [p \in Pages |-> 0] ELSE draws[i]]
  /\ reordered' = [i \in Tasks |-> IF i \in gone THEN FALSE ELSE reordered[i]]

\* (a variant that returns as soon as one fetch is done: FIRST_COMPLETED)
AllFetched_first(i) == \E p \in Pages : ppc[i][p] = "done"

\* gather has the outcome of every fetch_page task of scrape_query i
AllFetched(i) == \A p \in Pages : ppc[i][p] = "done"

\* (a variant that acquires query_sem without ever releasing it)
QuerySemRelease_never(s) == s

\* line 146, leaving the async with block: the slot of query_sem is released
QuerySemRelease(s) == release(s)

\* (a variant that puts the query back in line when save_to_json raised, to
\* be scraped and saved again)
QueryFinish_again(i, sink) ==
  /\ qpc[i] = "scraping"
  /\ ~Cancelling
  /\ \A p \in Pages : ppc[i][p] = "done"
  /\ LET doc == (queries[i] :> [n \in Pages |-> parse_page(
                     IF result[i][n] = FetchException THEN None ELSE result[i][n],
                     queries[i], n)])
     IN /\ handed' = [handed EXCEPT ![i] = Append(@, doc)]
        /\ files' = IF sink = "open_error" THEN files
                    ELSE ((SafeQuery(queries[i]) \o <<".json">>) :>
                            [json |-> doc, whole |-> (sink = "saved")]) @@ files
        /\ qpc' = [qpc EXCEPT ![i] = IF sink = "saved" THEN "done" ELSE "new"]
  /\ query_sem' = release(query_sem)
  /\ ppc' = [ppc EXCEPT ![i] = [p \in Pages |-> "idle"]]
  /\ attempt' = [attempt EXCEPT ![i] = [p \in Pages |-> 0]]
  /\ result' = [result EXCEPT ![i] = [p \in Pages |-> None]]
  /\ requests' = [requests EXCEPT ![i] = [p \in Pages |-> 0]]
  /\ log' = [log EXCEPT ![i] = [p \in Pages |-> <<>>]]
  /\ backoffs' = [backoffs EXCEPT ![i] = [p \in Pages |-> 0]]
  /\ connectors' = [connectors EXCEPT ![i] = [p \in Pages |-> 0]]
  /\ draws' = [draws EXCEPT ![i] = [p \in Pages |-> 0]]
  /\ reordered' = [reordered EXCEPT ![i] = FALSE]
  /\ UNCHANGED <<san, config, queries, proxyOk, mainpc, sem>>

\* lines 146-150 after gather returned: the document is assembled, the file
\* name derived and the file written, without a suspension point in between;
\* leaving the async with block releases the slot of query_sem.  sink is how
\* save_to_json ends; when it raises the exception leaves process_query.
QueryFinish(i, sink) ==
  /\ qpc[i] = "scraping"
  /\ ~Cancelling
  /\ AllFetched(i)
  /\ LET doc == Document(queries[i], html_pages(i))
     IN /\ handed' = [handed EXCEPT ![i] = Append(@, doc)]
        /\ files' = save_to_json(files, doc, Filename(queries[i]), sink)
        /\ qpc' = [qpc EXCEPT ![i] = IF sink = "saved" THEN "done" ELSE "failed"]
  /\ query_sem' = QuerySemRelease(query_sem)
  /\ Discard({i})
  /\ UNCHANGED <<san, config, queries, proxyOk, mainpc, sem>>

\* ---- main, lines 153-154, and asyncio.run ----
\* gather returns once every process_query task has returned
MainDone ==
  /\ mainpc = "running"
  /\ \A i \in Tasks : qpc[i] = "done"
  /\ mainpc' = "done"
  /\ UNCHANGED <<san, config, queries, proxyOk, qpc, ppc, attempt, result, requests, log,
                 backoffs, connectors, draws, reordered, sem, query_sem, handed, files>>

\* gather (without return_exceptions) raises the first exception of a task in
\* main, which ends.  The tasks are as they were: the loop still runs what it
\* has ready, and a process_query task may yet save its document.
MainRaise ==
  /\ mainpc = "running"
  /\ \E i \in Tasks : qpc[i] = "failed"
  /\ mainpc' = "crashed"
  /\ UNCHANGED <<san, config, queries, proxyOk, qpc, ppc, attempt, result, requests, log,
                 backoffs, connectors, draws, reordered, sem, query_sem, handed, files>>

\* asyncio.run, main having raised, cancels every task still pending; each
\* ends in a callback of its own.  fetch_page task (i, p) ends cancelled:
\* CancelledError is not an Exception, so line 49 lets it through; the async
\* with of line 41 gives the slot back, or the task leaves the queue of sem;
\* line 52 closes the connector.  The locals of the coroutine are gone.
CancelFetch(i, p) ==
  /\ mainpc = "crashed"
  /\ PendingFetch(i, p)
  /\ sem' = IF ppc[i][p] = "get" THEN unwind_holder(sem)
            ELSE IF ppc[i][p] = "wait" THEN unwind_waiter(sem, <<i, p>>)
            ELSE sem
  /\ ppc' = [ppc EXCEPT ![i][p] = "cancelled"]
  /\ attempt' = [attempt EXCEPT ![i][p] = 0]
  /\ result' = [result EXCEPT ![i][p] = None]
  /\ requests' = [requests EXCEPT ![i][p] = 0]
  /\ log' = [log EXCEPT ![i][p] = <<>>]
  /\ backoffs' = [backoffs EXCEPT ![i][p] = 0]
  /\ connectors' = [connectors EXCEPT ![i][p] = 0]
  /\ draws' = [draws EXCEPT ![i][p] = 0]
  /\ UNCHANGED <<san, config, queries, proxyOk, mainpc, qpc, reordered, query_sem,
                 handed, files>>

\* process_query task i ends cancelled: before its first run, in the queue of
\* query_sem, or in gather (line 113), which raises once every fetch_page
\* task of the query has ended; the async with of line 145 gives the slot back.
CancelQuery(i) ==
  /\ mainpc = "crashed"
  /\ i \in Pending
  /\ \A p \in Pages : ~PendingFetch(i, p)
  /\ query_sem' = IF qpc[i] = "scraping" THEN unwind_holder(query_sem)
                  ELSE IF qpc[i] = "wait" THEN unwind_waiter(query_sem, i)
                  ELSE query_sem
  /\ qpc' = [qpc EXCEPT ![i] = "cancelled"]
  /\ Discard({i})
  /\ UNCHANGED <<san, config, queries, proxyOk, mainpc, sem, handed, files>>

Next ==
  \/ \E i \in Tasks : QueryStart(i)
  \/ \E i \in Tasks : QueryResume(i)
  \/ \E i \in Tasks, p \in Pages : FetchStart(i, p)
  \/ \E i \in Tasks, p \in Pages : SemAcquire(i, p)
  \/ \E i \in Tasks, p \in Pages, o \in Outcomes : Response(i, p, o)
  \/ \E i \in Tasks, p \in Pages : Wake(i, p)
  \/ \E i \in Tasks, sink \in SinkOutcomes : QueryFinish(i, sink)
  \/ MainDone
  \/ MainRaise
  \/ \E i \in Tasks, p \in Pages : CancelFetch(i, p)
  \/ \E i \in Tasks : CancelQuery(i)

Spec == Init /\ [][Next]_vars

\* ---- runs in which save_to_json never raises ----
\* One step of fetch_page task (i, p); every request gets an answer.
FetchStep(i, p) ==
  \/ FetchStart(i, p)
  \/ SemAcquire(i, p)
  \/ \E o \in Outcomes : Response(i, p, o)
  \/ Wake(i, p)

\* One step of process_query task i.
QueryStep(i) == QueryStart(i) \/ QueryResume(i) \/ QueryFinish(i, "saved")

NextFair ==
  \/ \E i \in Tasks : QueryStep(i)
  \/ \E i \in Tasks, p \in Pages : FetchStep(i, p)
  \/ MainDone

\* the most process_query tasks, and pages of a query, of a run of the model
MaxTasks == MaxFetches \div SmallConfig.PAGES
MaxPages == DefaultConfig.PAGES

\* The event loop runs every task that is ready: a task that stays able to
\* take its next step takes it, and a request in flight ends.
Fairness ==
  /\ \A i \in 1..MaxTasks : WF_vars(i \in Tasks /\ QueryStep(i))
  /\ \A i \in 1..MaxTasks, p \in 1..MaxPages :
       WF_vars(i \in Tasks /\ p \in Pages /\ FetchStep(i, p))
  /\ WF_vars(MainDone)

\* The runs of the smaller configuration: up to three queries for two slots
\* of query_sem, and up to four fetches under way for three slots of sem.
InitFair == Init /\ config = SmallConfig

SpecFair == InitFair /\ [][NextFair]_vars /\ Fairness

\* ---- the file name of a query, on its own (lines 148-149) ----
MaxLen == 3
Alphabet == {"a", "b", " ", "_", "!"}
RECURSIVE Texts(_)
Texts(n) ==
  IF n = 0 THEN {<<>>}
  ELSE LET shorter == Texts(n - 1)
       IN shorter \cup {Append(t, c) : t \in {x \in shorter : Len(x) = n - 1}, c \in Alphabet}

InitSanitize ==
  /\ san \in [pc : {"in"}, q1 : Texts(MaxLen), q2 : Texts(MaxLen)]
  /\ config = DefaultConfig
  /\ queries = <<>>
  /\ proxyOk = TRUE
  /\ mainpc = "running"
  /\ qpc = <<>> /\ ppc = <<>> /\ attempt = <<>> /\ result = <<>>
  /\ requests = <<>> /\ log = <<>> /\ reordered = <<>>
  /\ backoffs = <<>> /\ connectors = <<>> /\ draws = <<>>
  /\ sem = Semaphore(SEM_LIMIT)
  /\ query_sem = Semaphore(QUERY_SEM_LIMIT)
  /\ handed = <<>>
  /\ files = <<>>

\* lines 148-149 applied to each of the two texts
Sanitize ==
  /\ san.pc = "in"
  /\ san' = [pc |-> "out", q1 |-> san.q1, q2 |-> san.q2,
             f1 |-> Filename(san.q1), f2 |-> Filename(san.q2)]
  /\ UNCHANGED <<config, queries, proxyOk, mainpc, qpc, ppc, attempt, result,
                 requests, log, backoffs, connectors, draws, reordered, sem,
                 query_sem, handed, files>>

NextSanitize == Sanitize
SpecSanitize == InitSanitize /\ [][NextSanitize]_vars

\* ---- state functions used by the properties ----
Fetches == {ip \in Tasks \X Pages : TRUE}
InFlight == {ip \in Fetches : ppc[ip[1]][ip[2]] = "get"}
Scraping == {i \in Tasks : qpc[i] = "scraping"}
\* gather of scrape_query i has every outcome and scrape_query is about to assemble
Gathered(i) == qpc[i] = "scraping" /\ AllFetched(i)
\* asyncio.run has returned or raised: main has ended and no task is pending
RunOver == mainpc = "done" \/ (mainpc = "crashed" /\ Pending = {})
Failed(r) == r = None \/ r = FetchException
EmptyPage(n) == [page |-> n, results |-> <<>>]

\* C1: the document scrape_query returns maps the query to exactly PAGES page
\* results, numbered 1..PAGES in order, and the n-th is parsed from what the
\* fetch of page n returned (empty when it returned None or raised), whatever
\* order the fetches finished in; that document is what is passed on.
C1_DocumentOf(i) == Document(queries[i], html_pages(i))
C1_Shape(i) ==
  LET doc == C1_DocumentOf(i)
      q == queries[i]
  IN /\ DOMAIN doc = {q}
     /\ Len(doc[q]) = PAGES
     /\ \A n \in 1..PAGES :
          /\ doc[q][n].page = n
          /\ doc[q][n].results =
               IF Failed(result[i][n]) THEN <<>>
               ELSE Results(ServedDivs(Url(q, n)), q)
C1_PagesInOrder ==
  /\ [](\A i \in Tasks : Gathered(i) => C1_Shape(i))
  /\ [][\A i \in Tasks : handed'[i] # handed[i] =>
          handed'[i] = <<C1_DocumentOf(i)>>]_vars
\* a gather whose fetches finished out of page order, with a failed and a
\* successful page
C1_Witness ==
  \E i \in Tasks :
    /\ Gathered(i) /\ reordered[i]
    /\ \E m, n \in Pages : Failed(result[i][m]) /\ ~Failed(result[i][n])

\* C2: over all queries and pages together, at most SEM_LIMIT requests are in
\* flight, in every state.
C2_PageLimit == Cardinality(InFlight) <= SEM_LIMIT
\* the limit is reached while a fetch of another page is queued
C2_Witness ==
  /\ Cardinality(InFlight) = SEM_LIMIT
  /\ Cardinality(Scraping) > 1
  /\ \E ip \in Fetches : ppc[ip[1]][ip[2]] = "wait"

\* C3: at most QUERY_SEM_LIMIT queries are being processed, in every state.
C3_QueryLimit == Cardinality(Scraping) <= QUERY_SEM_LIMIT
\* the limit is reached while a further query waits
C3_Witness ==
  /\ Cardinality(Scraping) = QUERY_SEM_LIMIT
  /\ \E i \in Tasks : qpc[i] = "wait"

AllFailed(l) == \A k \in 1..Len(l) : l[k] = "failed"

\* C4: a fetch whose RETRIES requests all failed has made exactly RETRIES
\* requests and is done with None, and its page result is the page index with
\* no records; no fetch makes more than RETRIES requests, and None is returned
\* only then.
C4_Exhausted ==
  \A i \in Tasks, p \in Pages :
    /\ requests[i][p] <= RETRIES
    /\ (Len(log[i][p]) = RETRIES /\ AllFailed(log[i][p])) =>
         /\ ppc[i][p] = "done"
         /\ result[i][p] = None
         /\ requests[i][p] = RETRIES
         /\ html_pages(i)[p] = None
         /\ structured_data(queries[i], html_pages(i))[p] = EmptyPage(p)
    /\ (ppc[i][p] = "done" /\ result[i][p] = None) =>
         (Len(log[i][p]) = RETRIES /\ AllFailed(log[i][p]))
\* a fetch of the default configuration that failed RETRIES times
C4_Witness ==
  \E i \in Tasks, p \in Pages :
    /\ config = DefaultConfig
    /\ ppc[i][p] = "done" /\ result[i][p] = None /\ requests[i][p] = RETRIES

\* C5: once a request of a fetch has got a 200 response, the fetch is done with
\* the body of that request and has made no further request; every earlier
\* request had failed.
C5_FirstSuccess ==
  \A i \in Tasks, p \in Pages :
    LET l == log[i][p] IN
    (l # <<>> /\ l[Len(l)] = "200") =>
      /\ ppc[i][p] = "done"
      /\ result[i][p] = Body(Url(queries[i], p), Len(l) - 1)
      /\ requests[i][p] = Len(l)
      /\ AllFailed(SubSeq(l, 1, Len(l) - 1))
\* a fetch of the default configuration that succeeded on its last attempt
C5_Witness ==
  \E i \in Tasks, p \in Pages :
    /\ config = DefaultConfig
    /\ log[i][p] = <<"failed", "failed", "200">>
    /\ result[i][p].kind = "html" /\ result[i][p].attempt = 2

\* C6: a fetch that ends with None or an exception changes nothing of its
\* sibling fetches and leaves its query scraping; the document is assembled and
\* passed on only when all PAGES fetches are done; a task fails only in the
\* step that passes its document on, never through an exception of a fetch.
C6_Isolation ==
  /\ [][\A i \in Tasks, p \in Pages :
          (ppc[i][p] # "done" /\ ppc'[i][p] = "done" /\ Failed(result'[i][p])) =>
             /\ qpc'[i] = "scraping"
             /\ \A r \in Pages \ {p} :
                  /\ ppc'[i][r] = ppc[i][r]
                  /\ result'[i][r] = result[i][r]
                  /\ attempt'[i][r] = attempt[i][r]]_vars
  /\ [][\A i \in Tasks : handed'[i] # handed[i] =>
          /\ \A p \in Pages : ppc[i][p] = "done"
          /\ \A p \in Pages : result[i][p] = FetchException =>
               handed'[i][1][queries[i]][p] = EmptyPage(p)]_vars
  /\ [][\A i \in Tasks : (qpc[i] # "failed" /\ qpc'[i] = "failed") =>
          handed'[i] # handed[i]]_vars
\* a fetch is done with None or an exception while a sibling is still under way
C6_Witness ==
  \E i \in Tasks, m, n \in Pages :
    /\ ppc[i][m] = "done" /\ Failed(result[i][m])
    /\ ppc[i][n] \in {"new", "wait", "get", "sleep"}

\* C7 (as claimed): when the run is over, every query of the batch has had its
\* document passed to the sink, whatever happened to the other queries.
C7_SiblingsUnaffected ==
  RunOver => \A i \in Tasks : handed[i] # <<>>

\* C8 (as claimed): a query whose every fetch failed stays in its scrape until
\* its document, PAGES page results without records, is passed to the sink.
C8_EmptyDocument(i) == (queries[i] :> [n \in 1..PAGES |-> EmptyPage(n)])
C8_NeverMissing ==
  [][\A i \in Tasks :
       (Gathered(i) /\ \A p \in Pages : Failed(result[i][p])) =>
          \/ Gathered(i)'
          \/ handed'[i] = <<C8_EmptyDocument(i)>>]_vars

Distinct(seq) == \A j, k \in 1..Len(seq) : j # k => seq[j] # seq[k]

\* C9 (as claimed): after a run over distinct queries that ended without a sink
\* error, the sink holds every query's document under that query's file name.
C9_OneDocumentPerQuery ==
  (mainpc = "done" /\ Distinct(queries)) =>
     \A i \in Tasks :
       /\ Filename(queries[i]) \in DOMAIN files
       /\ files[Filename(queries[i])].whole
       /\ <<files[Filename(queries[i])].json>> = handed[i]

IsAlnumOrSpace(c) == IsAlnum(c) \/ c = " "
AlnumSpace(query) == SelectSeq(query, IsAlnumOrSpace)
HasUnderscore(query) == \E k \in 1..Len(query) : query[k] = "_"

\* The identifier that the rule of the claim gives, taken one character at a
\* time: an alphanumeric or an underscore stays, a space becomes an
\* underscore, any other character is dropped.
RuleChar(c) ==
  IF IsAlnum(c) \/ c = "_" THEN <<c>>
  ELSE IF c = " " THEN <<"_">>
  ELSE <<>>
RECURSIVE RuleStem(_)
RuleStem(query) ==
  IF query = <<>> THEN <<>> ELSE RuleChar(Head(query)) \o RuleStem(Tail(query))

\* C10: the file name of a query is the one the rule gives for its text (keep
\* alphanumerics, spaces and underscores, then replace spaces by underscores)
\* followed by ".json", so the same text always gets the same name; and two
\* queries made of alphanumerics, spaces and disallowed punctuation get
\* different names when their alphanumeric+space content differs.
C10_StableIdentifier ==
  san.pc = "out" =>
    /\ san.f1 = RuleStem(san.q1) \o <<".json">>
    /\ san.f2 = RuleStem(san.q2) \o <<".json">>
    /\ san.q1 = san.q2 => san.f1 = san.f2
    /\ (~HasUnderscore(san.q1) /\ ~HasUnderscore(san.q2)
          /\ AlnumSpace(san.q1) # AlnumSpace(san.q2)) => san.f1 # san.f2
\* two queries that differ by a disallowed punctuation mark and in their
\* alphanumeric+space content, named apart
C10_Witness ==
  /\ san.pc = "out"
  /\ san.q1 = <<"a", "!", "b">> /\ san.q2 = <<"a", " ", "b">>
  /\ san.f1 = <<"a", "b", ".json">> /\ san.f2 = <<"a", "_", "b", ".json">>

\* C11 (as claimed): with a proxy url that ProxyConnector.from_url rejects, no
\* query is scraped and no document is passed to the sink.
C11_FatalAtStartup ==
  ~proxyOk =>
     /\ \A i \in Tasks : qpc[i] = "new" /\ handed[i] = <<>>
     /\ files = <<>>

\* the text of the element holds the sponsorship disclosure, in any letter case
HasDisclosure(div) == Lower(div.text) = "ads provided by google"
RecordsOf(pageResult) == {pageResult.results[k] : k \in 1..Len(pageResult.results)}

\* C12 (as claimed): the page result parse_page makes of a fetched page holds
\* no record of an element whose text contains the sponsorship disclosure.
C12_SponsoredExcluded ==
  \A i \in Tasks, p \in Pages :
    (ppc[i][p] = "done" /\ result[i][p].kind = "html") =>
       \A k \in 1..Len(result[i][p].divs) :
          LET d == result[i][p].divs[k] IN
          (HasDisclosure(d) /\ HasValidLink(d)) =>
             Record(d, queries[i]) \notin RecordsOf(parse_page(result[i][p], queries[i], p))

\* C13: a fetch has content only from a request that got status 200 and whose
\* body was read: its result is then the body of that request, the last of its
\* log; a non-200 status, a failed request or a failed read of the body gives
\* no content on any turn of the loop.
C13_ContentOnlyOn200 ==
  /\ [](\A i \in Tasks, p \in Pages :
          /\ result[i][p].kind = "html" =>
               /\ log[i][p] # <<>>
               /\ log[i][p][Len(log[i][p])] = "200"
               /\ result[i][p] = Body(Url(queries[i], p), Len(log[i][p]) - 1)
          /\ \A a \in 0..(RETRIES - 1), o \in Outcomes \ {"200"} :
               AfterAttempt(queries[i], p, a, o).kind # "html")
  /\ [][\A i \in Tasks, p \in Pages :
          (result[i][p].kind # "html" /\ result'[i][p].kind = "html") =>
             /\ ppc[i][p] = "get"
             /\ log'[i][p] = Append(log[i][p], "200")
             /\ result'[i][p] = Body(Url(queries[i], p), attempt[i][p])]_vars
\* a fetch that has content from its second request, the first having failed
C13_Witness ==
  \E i \in Tasks, p \in Pages :
    /\ config = SmallConfig
    /\ ppc[i][p] = "done"
    /\ log[i][p] = <<"failed", "200">>
    /\ result[i][p].kind = "html" /\ result[i][p].attempt = 1

\* C14: a fetch sleeps only after a failed request that is not the last of the
\* loop, never after a 200 and never after the request numbered RETRIES; each
\* request after the first starts from the sleep that followed the request
\* before it, so a fetch has slept once per request it made beyond its first,
\* and RETRIES - 1 times when all RETRIES requests failed.
C14_Backoff ==
  /\ [](\A i \in Tasks, p \in Pages :
          LET l == log[i][p] IN
          /\ backoffs[i][p] <= RETRIES - 1
          /\ backoffs[i][p] = attempt[i][p] + (IF ppc[i][p] = "sleep" THEN 1 ELSE 0)
          /\ ppc[i][p] = "sleep" => (l # <<>> /\ l[Len(l)] = "failed" /\ Len(l) < RETRIES)
          /\ (l # <<>> /\ l[Len(l)] = "200") => backoffs[i][p] = Len(l) - 1
          /\ (Len(l) = RETRIES /\ AllFailed(l)) => backoffs[i][p] = RETRIES - 1)
  /\ [][\A i \in Tasks, p \in Pages :
          /\ backoffs'[i][p] > backoffs[i][p] =>
               /\ backoffs'[i][p] = backoffs[i][p] + 1
               /\ ppc[i][p] = "get" /\ ppc'[i][p] = "sleep"
               /\ log'[i][p] = Append(log[i][p], "failed")
               /\ attempt[i][p] < RETRIES - 1
          /\ attempt'[i][p] > attempt[i][p] =>
               /\ attempt'[i][p] = attempt[i][p] + 1
               /\ ppc[i][p] = "sleep" /\ ppc'[i][p] \in {"get", "wait", "done"}
               /\ backoffs'[i][p] = attempt'[i][p]]_vars
\* a fetch of the default configuration that failed RETRIES times and slept twice
C14_Witness ==
  \E i \in Tasks, p \in Pages :
    /\ config = DefaultConfig
    /\ ppc[i][p] = "done"
    /\ log[i][p] = <<"failed", "failed", "failed">>
    /\ backoffs[i][p] = 2

\* C15: a fetch has an open connector only from the start of an attempt to the
\* end of its request, one at most; it has none while it sleeps, when it is
\* done or was cancelled, and when it makes the connector of its next attempt.
C15_ConnectorReleased ==
  /\ [](\A i \in Tasks, p \in Pages :
          /\ connectors[i][p] <= 1
          /\ ppc[i][p] \in {"idle", "new", "sleep", "done", "cancelled"} =>
               connectors[i][p] = 0
          /\ ppc[i][p] \in {"wait", "get"} => connectors[i][p] = 1)
  /\ [][\A i \in Tasks, p \in Pages :
          /\ connectors'[i][p] > connectors[i][p] =>
               (connectors[i][p] = 0 /\ ppc[i][p] \in {"new", "sleep"})
          /\ (ppc[i][p] = "get" /\ ppc'[i][p] # "get") => connectors'[i][p] = 0]_vars
\* a fetch of the default configuration sleeping after its second failed
\* request, with no connector open
C15_Witness ==
  \E i \in Tasks, p \in Pages :
    /\ config = DefaultConfig
    /\ ppc[i][p] = "sleep" /\ attempt[i][p] = 1
    /\ log[i][p] = <<"failed", "failed">>
    /\ connectors[i][p] = 0

\* C16 (as claimed): every request in flight holds a slot of sem, and the
\* User-Agent header it carries was drawn for its own attempt: a fetch making
\* its request numbered attempt + 1 has drawn a header attempt + 1 times.
C16_FreshHeaderPerAttempt ==
  /\ Cardinality(InFlight) <= SEM_LIMIT - sem.value
  /\ \A i \in Tasks, p \in Pages :
       ppc[i][p] = "get" => draws[i][p] = attempt[i][p] + 1

\* C17: a query's document is passed to the sink in the step that ends its
\* scrape: all PAGES fetches are done, the document has PAGES page results, the
\* task still holds its slot of query_sem and gives it back in that step, not
\* before; a task leaves its scrape only by that step (or by cancellation); the
\* sink gets at most one document per query, and a query that has started is
\* never started again.
C17_HandOff ==
  /\ [](\A i \in Tasks :
          /\ Len(handed[i]) <= 1
          /\ handed[i] # <<>> => qpc[i] \in {"done", "failed"}
          /\ qpc[i] = "done" => Len(handed[i]) = 1)
  /\ [][\A i \in Tasks :
          /\ handed'[i] # handed[i] =>
               /\ Gathered(i)
               /\ handed[i] = <<>>
               /\ handed'[i] = <<C1_DocumentOf(i)>>
               /\ Len(handed'[i][1][queries[i]]) = PAGES
               /\ query_sem'.value + Cardinality(query_sem'.woken)
                    = query_sem.value + Cardinality(query_sem.woken) + 1
               /\ qpc'[i] \in {"done", "failed"}
          /\ (qpc[i] = "scraping" /\ qpc'[i] \notin {"scraping", "cancelled"}) =>
               handed'[i] # handed[i]
          /\ qpc[i] # "new" => qpc'[i] # "new"
          /\ qpc[i] \notin {"new", "wait"} => qpc'[i] # "wait"
          /\ qpc[i] \notin {"new", "wait", "scraping"} =>
               (qpc'[i] # "scraping" /\ \A p \in Pages : ppc'[i][p] = "idle")]_vars
\* the first query is saved, its slot went to the third query, which is
\* scraping while the second still is
C17_Witness ==
  /\ Len(queries) = 3
  /\ qpc = <<"done", "scraping", "scraping">>
  /\ Len(handed[1]) = 1
  /\ files[Filename(queries[1])] = [json |-> handed[1][1], whole |-> TRUE]
  /\ query_sem.value = 0

Min(a, b) == IF a <= b THEN a ELSE b
\* the fetches whose loop is under way: created and not yet returned
Active == {ip \in Fetches : ppc[ip[1]][ip[2]] \in {"new", "wait", "get", "sleep"}}

\* C19: the slots of sem taken are those of the requests in flight and those
\* that a release passed to a queued fetch, which issues its request when it
\* runs next: no slot is held by a fetch that is new, sleeps or is done.  The
\* slots of query_sem taken are those of the queries being scraped and those
\* passed to a queued query; this holds also while the tasks that asyncio.run
\* cancelled end one by one.  When the run is over, asyncio.run having
\* returned or raised, both semaphores have all their slots and no waiter
\* (10 and 3 slots in the default configuration).
C19_SlotsReleased ==
  /\ SEM_LIMIT - sem.value = Cardinality(InFlight) + Cardinality(sem.woken)
  /\ \A w \in sem.woken : ppc[w[1]][w[2]] = "wait"
  /\ {sem.waiters[k] : k \in 1..Len(sem.waiters)}
       = {ip \in Fetches : ppc[ip[1]][ip[2]] = "wait"}
  /\ QUERY_SEM_LIMIT - query_sem.value
       = Cardinality(Scraping) + Cardinality(query_sem.woken)
  /\ \A i \in query_sem.woken : qpc[i] = "wait"
  /\ RunOver =>
       (sem = Semaphore(SEM_LIMIT) /\ query_sem = Semaphore(QUERY_SEM_LIMIT))
  /\ (RunOver /\ config = DefaultConfig) =>
       (sem.value = 10 /\ query_sem.value = 3)
\* every slot is taken, one of them by a queued fetch that a release passed
\* it to and that has not run yet; behind it queues a fetch that came out of
\* its sleep, holding none
C19_Witness ==
  \E w \in sem.woken, v \in Fetches :
    /\ sem.value = 0
    /\ sem.waiters = <<w, v>>
    /\ ppc[v[1]][v[2]] = "wait" /\ attempt[v[1]][v[2]] = 1
    /\ Cardinality(InFlight) = SEM_LIMIT - 1

\* C20: a fetch whose loop is under way (request in flight, waiting for a slot
\* or sleeping) belongs to a query that holds a slot of query_sem; so at most
\* QUERY_SEM_LIMIT * PAGES fetches are under way and the requests in flight
\* are at most the smaller of SEM_LIMIT and QUERY_SEM_LIMIT * PAGES.
C20_FetchWithinQuerySlot ==
  /\ \A i \in Tasks, p \in Pages :
       ppc[i][p] \in {"new", "wait", "get", "sleep"} => qpc[i] = "scraping"
  /\ \A i \in Tasks : qpc[i] \in {"new", "wait"} => \A p \in Pages : ppc[i][p] = "idle"
  /\ Cardinality(Active) <= QUERY_SEM_LIMIT * PAGES
  /\ Cardinality(InFlight) <= Min(SEM_LIMIT, QUERY_SEM_LIMIT * PAGES)
  /\ config = DefaultConfig => Cardinality(InFlight) <= Min(10, 3 * PAGES)
\* both bounds are met while a third query is queued at query_sem
C20_Witness ==
  /\ Cardinality(Active) = QUERY_SEM_LIMIT * PAGES
  /\ Cardinality(InFlight) = Min(SEM_LIMIT, QUERY_SEM_LIMIT * PAGES)
  /\ \E i \in Tasks : qpc[i] = "wait" /\ \A p \in Pages : ppc[i][p] = "idle"

\* C18: in a run in which every request gets an answer and save_to_json never
\* raises (with more queries than slots of query_sem and more fetches than
\* slots of sem), a step is possible as long as main has not returned; a document is
\* passed on only when each of its PAGES fetches has come to its own end, with
\* content or with None after RETRIES failed requests (or with the exception
\* of a rejected proxy url); and the run ends with gather returned, one
\* document of every query passed to the sink and written, and both
\* semaphores free.
C18_Terminates ==
  /\ [](mainpc = "running" => ENABLED <<NextFair>>_vars)
  /\ [][\A i \in Tasks : handed'[i] # handed[i] =>
          \A p \in Pages :
             /\ ppc[i][p] = "done"
             /\ \/ result[i][p].kind = "html"
                \/ result[i][p] = None /\ requests[i][p] = RETRIES
                \/ result[i][p] = FetchException /\ ~proxyOk]_vars
  /\ <>[](/\ mainpc = "done"
          /\ \A i \in Tasks :
               /\ qpc[i] = "done"
               /\ Len(handed[i]) = 1
               /\ Filename(queries[i]) \in DOMAIN files
          /\ sem = Semaphore(SEM_LIMIT) /\ query_sem = Semaphore(QUERY_SEM_LIMIT))
\* a run of more queries than query_sem has slots has ended; a page of the
\* last query was exhausted and another page of it has records
C18_Witness ==
  /\ mainpc = "done"
  /\ Len(queries) > QUERY_SEM_LIMIT
  /\ \A i \in Tasks : Len(handed[i]) = 1
  /\ LET doc == handed[Len(queries)][1][queries[Len(queries)]]
     IN \E m, n \in Pages : doc[m] = EmptyPage(m) /\ doc[n].results # <<>>

====
